---- MODULE Spec2Model ----
(***************************************************************************)
(* Chart generation loop of docu-chan                                      *)
(* (src/agents/doc_generator/chart/loop.py, class ChartLoop).              *)
(*                                                                         *)
(* One request (ChartLoop.run / run_from_task) is a sequential control     *)
(* loop: design -> generate/revise -> render -> (ping-pong repair ->       *)
(* re-render) -> CHARTAF evaluation -> plateau check.  Every external call *)
(* (designer, coder, mmdc renderer, evaluator) is one step whose outcome   *)
(* is chosen nondeterministically from what the call can return or raise.  *)
(*                                                                         *)
(* A string is a sequence of words; a list of issue strings is a sequence  *)
(* of such strings.  feedback_history keeps the entries the code can read  *)
(* (history[-1], history[-2]) and history_len keeps len(feedback_history). *)
(***************************************************************************)
EXTENDS Integers, Sequences, FiniteSets, TLC

VARIABLES
    pc,                 \* position of the control loop
    use_dual_coder,     \* ChartLoop.use_dual_coder
    skip_inspection,    \* run(..., skip_inspection)
    current_code,       \* run: current_code (None or code text)
    current_version,    \* run: current_code.version (0 while current_code is None)
    current_feedback,   \* run: current_feedback (None or VisualFeedback)
    final_image_path,   \* run: final_image_path (None or output name)
    visual_iterations,  \* run: visual_iterations
    render_attempts,    \* run: render_attempts
    feedback_history,   \* run: feedback_history, last two entries
    history_len,        \* len(feedback_history)
    short_error,        \* run: short_error of the failed main render
    attempt,            \* _ping_pong_fix: attempt
    pp_code,            \* _ping_pong_fix: current_code
    pp_error,           \* _ping_pong_fix: current_error
    fixed_code,         \* _ping_pong_fix: fixed_code_obj.code
    render_result,      \* RenderResult of the most recent executor.render call
    result,             \* the ChartResult returned (None until returned)
    observe,            \* which bookkeeping of the request is kept: "none", "renders", "rounds", "files", "image", "task"
    render_calls,       \* counted executor.render calls of the request (saturating)
    main_rendered,      \* the current pass has made its main-loop render call
    eval_calls,         \* number of chartaf.evaluate calls
    pp_ids,             \* coder ids used by this invocation of _ping_pong_fix
    trace,              \* facts about the request so far
    saved_mmd,          \* the attempt_N[_fixed].mmd file written last (when observed)
    rendered_names,     \* followed output names handed to executor.render so far (when observed)
    session_log,        \* session.json of the session directory (None until written)
    chartaf,            \* one ChartAF.evaluate call taken by itself: position, questions, evaluations, score
    run_from_task       \* run_from_task on the same outcomes: its position, locals and result (when observed)

vars == <<pc, use_dual_coder, skip_inspection, current_code, current_version, current_feedback,
          final_image_path, visual_iterations, render_attempts,
          feedback_history, history_len, short_error, attempt, pp_code,
          pp_error, fixed_code, render_result, result, observe, render_calls, main_rendered,
          eval_calls, pp_ids, trace, saved_mmd, rendered_names, session_log,
          chartaf, run_from_task>>

\* Python's None, per type of the variable that holds it
NoCode == 0
NoImage == <<"none", 0>>
NoError == <<>>
NoFeedback == [is_approved |-> FALSE, src |-> "none", issues |-> <<>>]
NoResult == [returned |-> FALSE]
NoRender == [kind |-> "none", success |-> FALSE, error |-> <<>>]
NoFile == [name |-> <<"none", 0>>, code |-> 0]
NoLog == [written |-> FALSE]

\* ---------------------------------------------------------------- constants
MAX_VISUAL_ITERATIONS == 3
MAX_RENDER_RETRIES == 4
MAX_PING_PONG_ROUNDS == 3

\* max_attempts of run / run_from_task
MaxAttempts == MAX_RENDER_RETRIES * 2
\* max_attempts of _ping_pong_fix
MaxPingPongAttempts == MAX_PING_PONG_ROUNDS * 2

\* the render-call count saturates one above the claimed budget
RenderCallCap == MaxAttempts + 1

\* ------------------------------------------------------------ bounded inputs
\* number of distinct code texts a coder may answer with
NumCodes == 2
Codes == 1..NumCodes

\* raw renderer errors: a sequence of lines, each line a prefix and a message
\* ("Error:" is the pattern _extract_error_message searches for)
RawErrors ==
    { << [tag |-> "", text |-> <<"mmdc", "failed">>],
         [tag |-> "Error:", text |-> <<"Parse", "error">>] >>,
      << [tag |-> "", text |-> <<"Render", "timeout">>] >> }

\* the question texts the question generator answers with during a request
LoopQuestions == << <<"Edges", "overlap">>, <<"labels", "cut">> >>

\* number of questions a reply of the question generator may hold
MaxQuestions == 5

\* --------------------------------------------------------------- pure helpers
Min(a, b) == IF a < b THEN a ELSE b
Max(a, b) == IF a > b THEN a ELSE b

\* str.lower() on the vocabulary of the model
Lower(w) ==
    CASE w = "Edges" -> "edges"
      [] w = "Overlap" -> "overlap"
      [] w = "Parse" -> "parse"
      [] w = "Render" -> "render"
      [] w = "Code" -> "code"
      [] w = "Evaluation" -> "evaluation"
      [] OTHER -> w

\* ' '.join(issues).lower().split() as a set
RECURSIVE TokenSet(_)
TokenSet(issues) ==
    IF issues = <<>> THEN {}
    ELSE { Lower(Head(issues)[i]) : i \in 1..Len(Head(issues)) }
            \cup TokenSet(Tail(issues))

\* _extract_error_message
RECURSIVE FirstErrorLine(_)
FirstErrorLine(lines) ==
    IF lines = <<>> THEN <<>>
    ELSE IF Head(lines).tag = "Error:" /\ Head(lines).text # <<>>
         THEN Head(lines).text
         ELSE FirstErrorLine(Tail(lines))

ExtractErrorMessage(error) ==
    IF FirstErrorLine(error) # <<>> THEN FirstErrorLine(error)
    ELSE IF error # <<>> /\ error[1].text # <<>> THEN error[1].text
    ELSE <<"Unknown", "error">>

\* _is_repeated_feedback on the readable tail of the history
IsRepeatedFeedback(history, len) ==
    IF len < 2 THEN FALSE
    ELSE LET last == TokenSet(history[Len(history)].issues)
             prev == TokenSet(history[Len(history) - 1].issues)
         IN IF last # {} /\ prev # {}
            THEN 10 * Cardinality(last \cap prev)
                    > 6 * Max(Cardinality(last), Cardinality(prev))
            ELSE FALSE

\* feedback_history.append(fb), keeping history[-2:]
HistAppend(history, fb) ==
    IF Len(history) < 2 THEN Append(history, fb)
    ELSE <<history[2], fb>>

\* VisualFeedback built by the loop for a failure
FailureFeedback(src, issue) ==
    [is_approved |-> FALSE, src |-> src, issues |-> <<issue>>]

\* VisualFeedback returned by ChartAF.evaluate
EvalFeedback(approved, issues) ==
    [is_approved |-> approved, src |-> "eval", issues |-> issues]

\* ------------------------------------------------------------------ ChartAF
\* APPROVAL_THRESHOLD = 0.8, in tenths
APPROVAL_THRESHOLD_TENTHS == 8

\* outcomes of one inspection call: answered yes, answered no, or the call raised
InspectorReplies == {"YES", "NO", "ERR"}

\* design_spec of ChartAF.evaluate: None, or structure.to_dict() with or
\* without decision nodes and with or without fan-out edges
NoDesign == [given |-> FALSE, decisions |-> FALSE, fanout |-> FALSE]
DesignSpecs ==
    {NoDesign} \cup {[given |-> TRUE, decisions |-> d, fanout |-> f] : d, f \in BOOLEAN}

\* the design spec of the requests of the loop
LoopDesign == [given |-> TRUE, decisions |-> FALSE, fanout |-> FALSE]

\* QuestionGenerator._generate_fallback_questions: four fixed questions; with
\* a design spec the node-count question, the decision-node question (id 6)
\* when there are decision nodes, and the fan-out question when there is fan-out
FallbackQuestions(design_spec) ==
    LET base == << [id |-> 1, question |-> <<"elements", "overlapping">>],
                   [id |-> 2, question |-> <<"text", "readable">>],
                   [id |-> 3, question |-> <<"flow", "direction">>],
                   [id |-> 4, question |-> <<"elements", "cutoff">>] >>
        nodes == IF design_spec.given
                 THEN Append(base, [id |-> 5, question |-> <<"exactly", "nodes">>])
                 ELSE base
        shapes == IF design_spec.given /\ design_spec.decisions
                  THEN Append(nodes, [id |-> 6, question |-> <<"diamond", "nodes">>])
                  ELSE nodes
    IN IF design_spec.given /\ design_spec.fanout
       THEN Append(shapes, [id |-> Len(shapes) + 1, question |-> <<"fan-out", "patterns">>])
       ELSE shapes

\* the fallback questions are used: the call failed or the reply holds no question
UsesFallback(reply) == ~(reply.ok /\ Len(reply.questions) > 0)

\* an empty reply is used as it is
GenerateQuestions_NoFallback(reply, design_spec) ==
    IF reply.ok
    THEN [i \in 1..Len(reply.questions) |-> [id |-> i, question |-> reply.questions[i]]]
    ELSE FallbackQuestions(design_spec)

\* QuestionGenerator.generate: the questions of the reply numbered from 1, or
\* the fallback questions when the call fails or the reply holds no question
GenerateQuestions(reply, design_spec) ==
    IF reply.ok /\ Len(reply.questions) > 0
    THEN [i \in 1..Len(reply.questions) |-> [id |-> i, question |-> reply.questions[i]]]
    ELSE FallbackQuestions(design_spec)

\* VisualInspector.evaluate_question: a failing call is answered NO
EvaluateQuestion(q, reply) ==
    CASE reply = "YES" -> [id |-> q.id, answer |-> TRUE, issue |-> <<>>]
      [] reply = "NO" -> [id |-> q.id, answer |-> FALSE, issue |-> q.question]
      [] OTHER -> [id |-> q.id, answer |-> FALSE, issue |-> <<"Evaluation", "error:">>]

\* BaseAgent.chat_async keeps the exchange whatever keep_history says
ChatAsync_KeepHistory(messages, keep_history) == messages \o <<"user", "assistant">>

\* BaseAgent.chat_async: self.messages after a call that returned
ChatAsync(messages, keep_history) ==
    IF keep_history THEN messages \o <<"user", "assistant">> ELSE messages

\* sorted(results, key=lambda r: r.id): the result at position k is the one
\* that k results precede or equal in (id, position) order (a stable sort)
SortById(results) ==
    LET n == Len(results)
        rank(i) == Cardinality({j \in 1..n :
                        \/ results[j].id < results[i].id
                        \/ (results[j].id = results[i].id /\ j <= i)})
    IN [k \in 1..n |-> results[CHOOSE i \in 1..n : rank(i) = k]]

\* VisualInspector.evaluate_all: asyncio.gather hands over one result per
\* question in the order of the tasks; the results are then sorted by id
EvaluateAll(questions, replies) ==
    SortById([i \in 1..Len(questions) |-> EvaluateQuestion(questions[i], replies[i])])

\* yes_count = sum(1 for e in evaluations if e.answer)
RECURSIVE YesCount(_)
YesCount(evaluations) ==
    IF Len(evaluations) = 0 THEN 0
    ELSE (IF Head(evaluations).answer THEN 1 ELSE 0) + YesCount(Tail(evaluations))

\* score = yes_count / len(evaluations) if evaluations else 0.0, as a fraction
Score(evaluations) ==
    IF Len(evaluations) > 0
    THEN [num |-> YesCount(evaluations), den |-> Len(evaluations)]
    ELSE [num |-> 0, den |-> 1]

\* the threshold test is strict
IsApproved_Strict(score) == 10 * score.num > APPROVAL_THRESHOLD_TENTHS * score.den

\* is_approved = score >= self.APPROVAL_THRESHOLD
IsApproved(score) == 10 * score.num >= APPROVAL_THRESHOLD_TENTHS * score.den

\* _generate_feedback: the non-empty issues of the NO answers, in order
RECURSIVE IssuesOf(_)
IssuesOf(evaluations) ==
    IF Len(evaluations) = 0 THEN <<>>
    ELSE LET e == Head(evaluations)
         IN (IF ~e.answer /\ e.issue # <<>> THEN <<e.issue>> ELSE <<>>)
                \o IssuesOf(Tail(evaluations))

GenerateFeedback(evaluations, is_approved) ==
    EvalFeedback(is_approved, IssuesOf(evaluations))

\* ChartAF.evaluate after the questions are there: Steps 2 and 3
ChartAFEvaluate(questions, replies) ==
    LET evaluations == EvaluateAll(questions, replies)
    IN GenerateFeedback(evaluations, IsApproved(Score(evaluations)))

\* no ChartAF.evaluate call is looked at by itself
AFIdle == [pc |-> "idle", design_spec |-> NoDesign, used_fallback |-> FALSE,
           questions |-> <<>>, tasks |-> <<>>, out_of_order |-> FALSE,
           messages |-> <<>>, evaluations |-> <<>>,
           score |-> [num |-> 0, den |-> 1], is_approved |-> FALSE,
           reply |-> <<>>, answer |-> FALSE, fix |-> <<>>]

\* ------------------------------------------- the reply of one inspection call
\* a text is a sequence of characters; the words a reply of the VLM is made of
WordYes == <<"Y", "e", "s">>
WordNo == <<"N", "O", ":">>
WordKnow == <<"k", "n", "o", "w">>
WordFix == <<"f", "i", "x">>
WordEdges == <<"e", "d", "g", "e", "s">>
ReplyWords == {WordYes, WordNo, WordKnow, WordFix, WordEdges}

\* number of words of a reply
MaxReplyWords == 3

\* the replies: up to MaxReplyWords words
Replies == UNION {[1..n -> ReplyWords] : n \in 0..MaxReplyWords}

\* question.focus_points
FocusPoints == <<"f", "o", "c", "u", "s">>

\* response.message.content of a reply: its words separated by blanks
RECURSIVE JoinWords(_)
JoinWords(words) ==
    IF Len(words) = 0 THEN <<>>
    ELSE IF Len(words) = 1 THEN words[1]
    ELSE words[1] \o <<" ">> \o JoinWords(Tail(words))

\* str.upper() on one character
UpperChar(c) ==
    CASE c = "e" -> "E" [] c = "s" -> "S" [] c = "o" -> "O" [] c = "k" -> "K"
      [] c = "n" -> "N" [] c = "w" -> "W" [] c = "f" -> "F" [] c = "i" -> "I"
      [] c = "x" -> "X" [] c = "d" -> "D" [] c = "g" -> "G" [] c = "y" -> "Y"
      [] OTHER -> c

\* str.upper()
Upper(text) == [i \in 1..Len(text) |-> UpperChar(text[i])]

\* str.lstrip(chars)
RECURSIVE LStrip(_, _)
LStrip(text, chars) ==
    IF Len(text) > 0 /\ text[1] \in chars THEN LStrip(Tail(text), chars) ELSE text

\* str.rstrip(chars)
RECURSIVE RStrip(_, _)
RStrip(text, chars) ==
    IF Len(text) > 0 /\ text[Len(text)] \in chars
    THEN RStrip(SubSeq(text, 1, Len(text) - 1), chars)
    ELSE text

\* str.strip()
Strip(text) == RStrip(LStrip(text, {" ", "\n"}), {" ", "\n"})

\* str.find(sub): the lowest index (from 0) where sub occurs in text, or -1
Find(text, sub) ==
    LET hits == {i \in 1..(Len(text) - Len(sub) + 1) :
                    SubSeq(text, i, i + Len(sub) - 1) = sub}
    IN IF hits = {} THEN -1
       ELSE (CHOOSE i \in hits : \A j \in hits : i <= j) - 1

\* evaluate_question on the content of a reply: answer and fix suggestion
ParseReply(content) ==
    LET response_text == Strip(content)
        response_upper == Upper(response_text)
        yes_pos == Find(response_upper, <<"Y", "E", "S">>)
        no_pos == Find(response_upper, <<"N", "O">>)
        answer == IF yes_pos = -1 /\ no_pos = -1 THEN FALSE
                  ELSE IF yes_pos = -1 THEN FALSE
                  ELSE IF no_pos = -1 THEN TRUE
                  ELSE yes_pos < no_pos
        rest == LStrip(SubSeq(response_text, no_pos + 3, Len(response_text)),
                       {":", " ", "-", ",", "\n"})
    IN [answer |-> answer,
        fix |-> IF ~answer /\ no_pos # -1
                THEN (IF rest = <<>> THEN FocusPoints ELSE rest)
                ELSE <<>>]

\* replies of the question generator: the call fails, or a list of questions
QuestionText(i) == <<"question", ToString(i)>>
QuestionReplies ==
    {[ok |-> FALSE, questions |-> <<>>]}
        \cup {[ok |-> TRUE, questions |-> [i \in 1..n |-> QuestionText(i)]] :
                n \in 0..MaxQuestions}

\* the repair loop never hands over to coder B
CoderId_AlwaysA(k) == "A"

\* "A" if attempt % 2 == 0 else "B"
CoderId(k) == IF k % 2 = 0 THEN "A" ELSE "B"

CountRender(n) == IF observe = "renders" THEN Min(n + 1, RenderCallCap) ELSE n

\* run_from_task before Step 1: its own locals, nothing returned
TaskIdle ==
    [pc |-> "design", current_code |-> NoCode, current_feedback |-> NoFeedback,
     final_image_path |-> NoImage, visual_iterations |-> 0, render_attempts |-> 0,
     feedback_history |-> <<>>, history_len |-> 0, short_error |-> NoError,
     attempt |-> 0, pp_code |-> NoCode, pp_error |-> NoError,
     fixed_code |-> NoCode, result |-> NoResult]

\* --------------------------------------------------------------------- Init
\* the locals of run before Step 1
InitLocals ==
    /\ current_code = NoCode
    /\ current_version = 0
    /\ current_feedback = NoFeedback
    /\ final_image_path = NoImage
    /\ visual_iterations = 0
    /\ render_attempts = 0
    /\ feedback_history = <<>>
    /\ history_len = 0
    /\ short_error = NoError
    /\ attempt = 0
    /\ pp_code = NoCode
    /\ pp_error = NoError
    /\ fixed_code = NoCode
    /\ result = NoResult
    /\ render_result = NoRender
    /\ render_calls = 0
    /\ main_rendered = FALSE
    /\ eval_calls = 0
    /\ pp_ids = <<>>
    /\ trace = [approved |-> FALSE, any_image |-> FALSE, main_image |-> FALSE,
                scenario_a |-> FALSE, scenario_a_rendered |-> FALSE,
                last_eval |-> NoFeedback,
                eval_raised |-> FALSE, critic_failed |-> FALSE,
                image_code |-> NoCode]
    /\ saved_mmd = NoFile
    /\ rendered_names = {}
    /\ session_log = NoLog
    /\ run_from_task = TaskIdle

InitRequest ==
    /\ pc = "design"
    /\ use_dual_coder \in BOOLEAN
    /\ skip_inspection \in BOOLEAN
    /\ InitLocals
    /\ chartaf = AFIdle

\* a request with the bookkeeping every request has
Init == InitRequest /\ observe = "none"

\* a request whose render calls are counted as well
InitCounting == InitRequest /\ observe = "renders"

\* a request whose evaluation rounds and repair scenarios are remembered as well
InitRounds == InitRequest /\ observe = "rounds"

\* a request whose attempt files and render output names are followed as well
InitFiles == InitRequest /\ observe = "files"

\* a request for which the code rendered into final_image_path is remembered as well
InitImage == InitRequest /\ observe = "image"

\* a request on which run_from_task is followed next to run
InitTask == InitRequest /\ observe = "task"

\* -------------------------------------------------- outcomes of external calls
\* _create_coder: the _code_history of a new MermaidCoder
NewCoderHistory == <<>>

\* version=len(self._code_history) + 1
CoderVersion(code_history) == Len(code_history) + 1

\* what the language model behind a coder answers: a code text, or nothing usable
CoderAnswers == Codes \cup {NoCode}

\* MermaidCoder.generate / revise: an artifact, or an exception
Generate(answer) ==
    IF answer = NoCode THEN [ok |-> FALSE] ELSE [ok |-> TRUE, code |-> answer]

Revise(prev_code, answer) ==
    IF answer = NoCode THEN [ok |-> FALSE] ELSE [ok |-> TRUE, code |-> answer]

\* fix_error returns the answer even when it repeats the broken code
FixError_AcceptSame(broken_code, answer) ==
    IF answer = NoCode THEN [ok |-> FALSE] ELSE [ok |-> TRUE, code |-> answer]

\* MermaidCoder.fix_error: an artifact that differs from the broken code, or
\* an exception (no code in the answer, or the answer repeats the broken code)
FixError(broken_code, answer) ==
    IF answer = NoCode \/ answer = broken_code
    THEN [ok |-> FALSE]
    ELSE [ok |-> TRUE, code |-> answer]

\* CodeExecutor.render: RenderResult(success, image_path | error)
RenderOutcomes(output_name) ==
    {[success |-> TRUE, image_path |-> output_name, error |-> <<>>]}
        \cup {[success |-> FALSE, image_path |-> NoImage, error |-> e] : e \in RawErrors}

\* what one chartaf.evaluate call of the loop meets: the call raises; or the
\* question generator replies and every inspection call gives the same reply;
\* or the question generator fails and every inspection call answers YES
EvalInputs ==
    {[raises |-> TRUE, qreply |-> [ok |-> FALSE, questions |-> <<>>], reply |-> "ERR"]}
        \cup {[raises |-> FALSE, qreply |-> [ok |-> TRUE, questions |-> LoopQuestions],
                reply |-> r] : r \in InspectorReplies}
        \cup {[raises |-> FALSE, qreply |-> [ok |-> FALSE, questions |-> <<>>],
                reply |-> "YES"]}

\* the critic backend failed inside the round: question generation or an inspection call
CriticFailed(inp) == ~inp.qreply.ok \/ inp.reply = "ERR"

\* the VisualFeedback chartaf.evaluate returns to the loop for inp
LoopEvaluate(inp) ==
    LET questions == GenerateQuestions(inp.qreply, LoopDesign)
    IN ChartAFEvaluate(questions, [i \in 1..Len(questions) |-> inp.reply])

\* the chartaf.evaluate calls that return: what the call met and the feedback
EvalReturns ==
    {[inp |-> inp, feedback |-> LoopEvaluate(inp)] :
        inp \in {i \in EvalInputs : ~i.raises}}

\* ------------------------------------------------------------ loop decisions
\* the attempt test lets one pass too many through
LoopContinues_AttemptsOffByOne(vi, ra) ==
    vi < MAX_VISUAL_ITERATIONS /\ ra <= MaxAttempts

\* the iteration test lets one evaluated iteration too many through
LoopContinues_IterationsOffByOne(vi, ra) ==
    vi <= MAX_VISUAL_ITERATIONS /\ ra < MaxAttempts

\* while visual_iterations < MAX_VISUAL_ITERATIONS and render_attempts < max_attempts
LoopContinues(vi, ra) == vi < MAX_VISUAL_ITERATIONS /\ ra < MaxAttempts

\* the repair loop makes one attempt too many
PingPongContinues_OffByOne(k) == k <= MaxPingPongAttempts

\* for attempt in range(max_attempts)
PingPongContinues(k) == k < MaxPingPongAttempts

\* has_output looks at the code only
HasOutput_CodeOnly(code, image) == code # NoCode

\* has_output = current_code is not None and final_image_path is not None
HasOutput(code, image) == code # NoCode /\ image # NoImage

\* output names handed to executor.render
AttemptName(ra) == <<"attempt", ra>>
FixedName(ra) == <<"attempt_fixed", ra>>
FixName(k) == <<"_fix", k>>

PingPongReset ==
    /\ short_error' = NoError
    /\ attempt' = 0
    /\ pp_code' = NoCode
    /\ pp_error' = NoError
    /\ fixed_code' = NoCode
    /\ pp_ids' = <<>>

PingPongUnchanged ==
    UNCHANGED <<short_error, attempt, pp_code, pp_error, fixed_code, pp_ids>>

\* a recorded failure ends the loop instead of continuing it
RecordFailure_Break(fb) ==
    /\ current_feedback' = fb
    /\ feedback_history' = HistAppend(feedback_history, fb)
    /\ history_len' = history_len + 1
    /\ pc' = "finish"

\* a failure is not appended to feedback_history
RecordFailure_NoAppend(fb) ==
    /\ current_feedback' = fb
    /\ feedback_history' = feedback_history
    /\ history_len' = history_len
    /\ pc' = "loop"

\* current_feedback = VisualFeedback(...); feedback_history.append(...); continue
RecordFailure(fb) ==
    /\ current_feedback' = fb
    /\ feedback_history' = HistAppend(feedback_history, fb)
    /\ history_len' = history_len + 1
    /\ pc' = "loop"

\* a successful render is not counted as a visual iteration
RenderSucceeded_NoCount(image) ==
    /\ visual_iterations' = visual_iterations
    /\ final_image_path' = image
    /\ pc' = IF skip_inspection THEN "finish" ELSE "eval"

\* a render succeeded in the main loop: count the visual iteration, keep the image
RenderSucceeded(image) ==
    /\ visual_iterations' = visual_iterations + 1
    /\ final_image_path' = image
    /\ pc' = IF skip_inspection THEN "finish" ELSE "eval"

\* the output names whose use is followed
WatchedNames == {FixName(0), FixName(1)}

\* the session directory is not written to
_save_attempt_mmd_NoSession(mermaid_code, name) == saved_mmd

\* _save_attempt_mmd: write the code to <name>.mmd in the session directory
_save_attempt_mmd(mermaid_code, name) ==
    IF observe = "files" THEN [name |-> name, code |-> mermaid_code] ELSE saved_mmd

\* session.json is not written
_save_session_log_NoSession(res) == NoLog

\* _save_session_log: the fields of session.json taken from the result
_save_session_log(res) ==
    [written |-> TRUE, success |-> res.success, iterations |-> res.iterations,
     mermaid_code |-> res.mermaid_code, history_len |-> res.history_len,
     error |-> res.error]

\* bookkeeping of one executor.render call
RenderCalled(kind, output_name, r) ==
    /\ render_result' = [kind |-> kind, success |-> r.success, error |-> r.error]
    /\ rendered_names' = IF observe = "files"
                         THEN rendered_names \cup ({output_name} \cap WatchedNames)
                         ELSE rendered_names
    /\ render_calls' = CountRender(render_calls)
    /\ main_rendered' = (main_rendered \/ kind = "main")
    /\ UNCHANGED <<observe, chartaf>>

NoRenderCalled ==
    UNCHANGED <<render_result, observe, render_calls, main_rendered, chartaf,
                rendered_names>>

\* ------------------------------------------------- run_from_task, step by step
\* the outcomes of the external calls of the step being taken, as run received
\* them: run_from_task is handed the same ones
DesignReturned == pc' = "loop"
CoderOutcome == [ok |-> pc' = "render", code |-> current_code']
FixOutcome == [ok |-> pc' = "pp_render", code |-> fixed_code']
RenderOutcome == [success |-> render_result'.success, error |-> render_result'.error,
                  image_path |-> final_image_path']
EvalOutcome == [raises |-> history_len' = history_len, feedback |-> current_feedback']

\* run_from_task drops a recorded failure instead of appending it
TaskRecordFailure_NoAppend(t, fb) ==
    [t EXCEPT !.current_feedback = fb, !.pc = "loop"]

\* run_from_task: current_feedback = VisualFeedback(...); feedback_history.append(...); continue
TaskRecordFailure(t, fb) ==
    [t EXCEPT !.current_feedback = fb,
              !.feedback_history = HistAppend(@, fb),
              !.history_len = @ + 1,
              !.pc = "loop"]

\* run_from_task: visual_iterations += 1; final_image_path = ...; if skip_inspection: break
TaskRenderSucceeded(t, image) ==
    [t EXCEPT !.visual_iterations = @ + 1,
              !.final_image_path = image,
              !.pc = IF skip_inspection THEN "finish" ELSE "eval"]

\* _ping_pong_fix has returned to run_from_task: its locals are gone
TaskPingPongReturned(t) ==
    [t EXCEPT !.short_error = NoError, !.attempt = 0, !.pp_code = NoCode,
              !.pp_error = NoError, !.fixed_code = NoCode]

\* run_from_task after its loop: has_output, ChartResult(...), return result
TaskFinish(t) ==
    LET has_output == t.current_code # NoCode /\ t.final_image_path # NoImage
    IN [t EXCEPT !.result = [returned |-> TRUE,
                             success |-> has_output,
                             mermaid_code |-> t.current_code,
                             image_path |-> t.final_image_path,
                             iterations |-> t.visual_iterations,
                             history_len |-> t.history_len,
                             error |-> IF has_output THEN "None"
                                       ELSE "Failed to generate chart"],
                 !.pc = "done"]

\* one step of run_from_task from position t.pc, given the outcome of the call it makes
TaskStep(t) ==
    CASE t.pc = "design" ->
           IF DesignReturned
           THEN [t EXCEPT !.pc = "loop"]
           ELSE [t EXCEPT !.result = [returned |-> TRUE, success |-> FALSE,
                                      mermaid_code |-> NoCode, image_path |-> NoImage,
                                      iterations |-> 0, history_len |-> 0,
                                      error |-> "Design failed"],
                          !.pc = "done"]
      [] t.pc = "loop" ->
           IF t.visual_iterations < MAX_VISUAL_ITERATIONS
              /\ t.render_attempts < MAX_RENDER_RETRIES * 2
           THEN [t EXCEPT !.render_attempts = @ + 1, !.pc = "synth"]
           ELSE [t EXCEPT !.pc = "finish"]
      [] t.pc = "synth" ->
           IF CoderOutcome.ok
           THEN [t EXCEPT !.current_code = CoderOutcome.code, !.pc = "render"]
           ELSE TaskRecordFailure(t, FailureFeedback("code", <<"Code", "error:">>))
      [] t.pc = "render" ->
           IF RenderOutcome.success
           THEN TaskRenderSucceeded(t, RenderOutcome.image_path)
           ELSE IF use_dual_coder
           THEN [t EXCEPT !.short_error = ExtractErrorMessage(RenderOutcome.error),
                          !.pp_error = ExtractErrorMessage(RenderOutcome.error),
                          !.pp_code = t.current_code,
                          !.attempt = 0,
                          !.fixed_code = NoCode,
                          !.pc = "pp_fix"]
           ELSE TaskRecordFailure(t, FailureFeedback("render",
                                      ExtractErrorMessage(RenderOutcome.error)))
      [] t.pc = "pp_fix" ->
           IF t.attempt < MAX_PING_PONG_ROUNDS * 2
           THEN IF FixOutcome.ok
                THEN [t EXCEPT !.fixed_code = FixOutcome.code, !.pc = "pp_render"]
                ELSE [t EXCEPT !.attempt = @ + 1]
           ELSE TaskPingPongReturned(
                    TaskRecordFailure(t, FailureFeedback("render", t.short_error)))
      [] t.pc = "pp_render" ->
           IF RenderOutcome.success
           THEN [t EXCEPT !.current_code = t.fixed_code, !.pc = "rerender"]
           ELSE [t EXCEPT !.pp_code = t.fixed_code,
                          !.pp_error = ExtractErrorMessage(RenderOutcome.error),
                          !.fixed_code = NoCode,
                          !.attempt = @ + 1,
                          !.pc = "pp_fix"]
      [] t.pc = "rerender" ->
           IF RenderOutcome.success
           THEN TaskPingPongReturned(TaskRenderSucceeded(t, RenderOutcome.image_path))
           ELSE TaskPingPongReturned(
                    TaskRecordFailure(t, FailureFeedback("render",
                                          ExtractErrorMessage(RenderOutcome.error))))
      [] t.pc = "eval" ->
           IF EvalOutcome.raises
           THEN [t EXCEPT !.pc = "finish"]
           ELSE LET fb == EvalOutcome.feedback
                    history == HistAppend(t.feedback_history, fb)
                IN [t EXCEPT !.current_feedback = fb,
                             !.feedback_history = history,
                             !.history_len = @ + 1,
                             !.pc = IF fb.is_approved THEN "finish"
                                    ELSE IF IsRepeatedFeedback(history, t.history_len + 1)
                                         THEN "finish"
                                         ELSE "loop"]
      [] t.pc = "finish" -> TaskFinish(t)
      [] OTHER -> t

\* run_from_task takes its step alongside run when the two are followed together
TaskFollows ==
    run_from_task' = IF observe = "task" THEN TaskStep(run_from_task) ELSE run_from_task

\* ------------------------------------------------------------------ actions
\* Step 1 of run / run_from_task: the designer returns design data
DesignOk ==
    /\ UNCHANGED session_log
    /\ UNCHANGED saved_mmd
    /\ pc = "design"
    /\ pc' = "loop"
    /\ UNCHANGED <<use_dual_coder, skip_inspection, current_version, current_code, current_feedback,
                   final_image_path, visual_iterations, render_attempts,
                   feedback_history, history_len, result, eval_calls, trace>>
    /\ NoRenderCalled
    /\ PingPongUnchanged
    /\ TaskFollows

\* a failed design step records the failure and enters the loop all the same
DesignFail_EntersLoop ==
    /\ UNCHANGED session_log
    /\ UNCHANGED saved_mmd
    /\ pc = "design"
    /\ result' = [returned |-> TRUE, success |-> FALSE, mermaid_code |-> NoCode,
                  image_path |-> NoImage, iterations |-> 0, history_len |-> 0,
                  error |-> "Design failed"]
    /\ pc' = "loop"
    /\ UNCHANGED <<use_dual_coder, skip_inspection, current_version, current_code, current_feedback,
                   final_image_path, visual_iterations, render_attempts,
                   feedback_history, history_len, eval_calls, trace>>
    /\ NoRenderCalled
    /\ PingPongUnchanged
    /\ TaskFollows

\* Step 1 raises: return ChartResult(success=False, error="Design failed: ...")
DesignFail ==
    /\ UNCHANGED session_log
    /\ UNCHANGED saved_mmd
    /\ pc = "design"
    /\ result' = [returned |-> TRUE, success |-> FALSE, mermaid_code |-> NoCode,
                  image_path |-> NoImage, iterations |-> 0, history_len |-> 0,
                  error |-> "Design failed"]
    /\ pc' = "done"
    /\ UNCHANGED <<use_dual_coder, skip_inspection, current_version, current_code, current_feedback,
                   final_image_path, visual_iterations, render_attempts,
                   feedback_history, history_len, eval_calls, trace>>
    /\ NoRenderCalled
    /\ PingPongUnchanged
    /\ TaskFollows

\* entering a pass does not count it
LoopTest_NoIncrement ==
    /\ UNCHANGED session_log
    /\ UNCHANGED saved_mmd
    /\ pc = "loop"
    /\ IF LoopContinues(visual_iterations, render_attempts)
       THEN /\ render_attempts' = render_attempts
            /\ main_rendered' = FALSE
            /\ pc' = "synth"
       ELSE /\ render_attempts' = render_attempts
            /\ main_rendered' = main_rendered
            /\ pc' = "finish"
    /\ UNCHANGED <<use_dual_coder, skip_inspection, current_version, current_code, current_feedback,
                   final_image_path, visual_iterations,
                   feedback_history, history_len, result, eval_calls, trace,
                   render_result, observe, render_calls, chartaf, rendered_names>>
    /\ PingPongUnchanged
    /\ TaskFollows

\* the while test; entering a pass increments render_attempts
LoopTest ==
    /\ UNCHANGED session_log
    /\ UNCHANGED saved_mmd
    /\ pc = "loop"
    /\ IF LoopContinues(visual_iterations, render_attempts)
       THEN /\ render_attempts' = render_attempts + 1
            /\ main_rendered' = FALSE
            /\ pc' = "synth"
       ELSE /\ render_attempts' = render_attempts
            /\ main_rendered' = main_rendered
            /\ pc' = "finish"
    /\ UNCHANGED <<use_dual_coder, skip_inspection, current_version, current_code, current_feedback,
                   final_image_path, visual_iterations,
                   feedback_history, history_len, result, eval_calls, trace,
                   render_result, observe, render_calls, chartaf, rendered_names>>
    /\ PingPongUnchanged
    /\ TaskFollows

\* Step 2 with the outcome of the coder call: new code, or a recorded failure
SynthStep(out) ==
    /\ UNCHANGED session_log
    /\ UNCHANGED saved_mmd
    /\ IF out.ok
       THEN /\ current_code' = out.code
            /\ current_version' = CoderVersion(NewCoderHistory)
            /\ pc' = "render"
            /\ UNCHANGED <<current_feedback, feedback_history, history_len>>
       ELSE /\ current_code' = current_code
            /\ current_version' = current_version
            /\ RecordFailure(FailureFeedback("code", <<"Code", "error:">>))
    /\ UNCHANGED <<use_dual_coder, skip_inspection,
                   final_image_path, visual_iterations, render_attempts,
                   result, eval_calls, trace>>
    /\ NoRenderCalled
    /\ PingPongUnchanged
    /\ TaskFollows

\* Step 2, first artifact: coder.generate(structure)
SynthGenerate ==
    /\ pc = "synth"
    /\ current_code = NoCode
    /\ \E answer \in CoderAnswers : SynthStep(Generate(answer))

\* Step 2, later passes: coder.revise(structure, current_code.code, current_feedback)
SynthRevise ==
    /\ pc = "synth"
    /\ current_code # NoCode
    /\ \E answer \in CoderAnswers : SynthStep(Revise(current_code, answer))

\* Step 3: executor.render(current_code.code, attempt_N) succeeds
RenderOk ==
    /\ UNCHANGED session_log
    /\ saved_mmd' = _save_attempt_mmd(current_code, AttemptName(render_attempts))
    /\ pc = "render"
    /\ \E r \in RenderOutcomes(AttemptName(render_attempts)) :
          /\ r.success
          /\ RenderSucceeded(r.image_path)
          /\ RenderCalled("main", AttemptName(render_attempts), r)
    /\ trace' = [trace EXCEPT !.any_image = TRUE, !.main_image = TRUE,
                              !.image_code = IF observe = "image"
                                             THEN current_code ELSE @]
    /\ UNCHANGED <<use_dual_coder, skip_inspection, current_version, current_code, current_feedback,
                   render_attempts, feedback_history, history_len, result,
                   eval_calls>>
    /\ PingPongUnchanged
    /\ TaskFollows

\* Step 3 fails with use_dual_coder: enter _ping_pong_fix(structure, code, short_error)
RenderFailDual ==
    /\ UNCHANGED session_log
    /\ saved_mmd' = _save_attempt_mmd(current_code, AttemptName(render_attempts))
    /\ pc = "render"
    /\ use_dual_coder
    /\ \E r \in RenderOutcomes(AttemptName(render_attempts)) :
          /\ ~r.success
          /\ short_error' = ExtractErrorMessage(r.error)
          /\ pp_error' = ExtractErrorMessage(r.error)
          /\ RenderCalled("main", AttemptName(render_attempts), r)
    /\ pp_code' = current_code
    /\ attempt' = 0
    /\ fixed_code' = NoCode
    /\ pp_ids' = <<>>
    /\ pc' = "pp_fix"
    /\ UNCHANGED <<use_dual_coder, skip_inspection, current_version, current_code, current_feedback,
                   final_image_path, visual_iterations, render_attempts,
                   feedback_history, history_len, result, eval_calls, trace>>
    /\ TaskFollows

\* Step 3 fails without use_dual_coder: record the failure and continue
RenderFailSingle ==
    /\ UNCHANGED session_log
    /\ saved_mmd' = _save_attempt_mmd(current_code, AttemptName(render_attempts))
    /\ pc = "render"
    /\ ~use_dual_coder
    /\ \E r \in RenderOutcomes(AttemptName(render_attempts)) :
          /\ ~r.success
          /\ RecordFailure(FailureFeedback("render", ExtractErrorMessage(r.error)))
          /\ RenderCalled("main", AttemptName(render_attempts), r)
    /\ UNCHANGED <<use_dual_coder, skip_inspection, current_version, current_code,
                   final_image_path, visual_iterations, render_attempts,
                   result, eval_calls, trace>>
    /\ PingPongUnchanged
    /\ TaskFollows

\* a raising fix_error overwrites current_error with the exception text
FixStep_UpdateOnFail(out) ==
    IF out.ok
    THEN /\ fixed_code' = out.code
         /\ attempt' = attempt
         /\ pc' = "pp_render"
         /\ UNCHANGED <<pp_code, pp_error>>
    ELSE /\ fixed_code' = fixed_code
         /\ attempt' = attempt + 1
         /\ pc' = "pp_fix"
         /\ pp_code' = pp_code
         /\ pp_error' = <<"Unknown", "error">>

\* what one coder.fix_error call does to the state of _ping_pong_fix:
\* a returned artifact goes on to be rendered; an exception moves to the next
\* coder and leaves current_code and current_error alone
FixStep(out) ==
    IF out.ok
    THEN /\ fixed_code' = out.code
         /\ attempt' = attempt
         /\ pc' = "pp_render"
         /\ UNCHANGED <<pp_code, pp_error>>
    ELSE /\ fixed_code' = fixed_code
         /\ attempt' = attempt + 1
         /\ pc' = "pp_fix"
         /\ UNCHANGED <<pp_code, pp_error>>

\* one pass of the for loop of _ping_pong_fix up to the coder.fix_error call
PingPongFix ==
    /\ UNCHANGED session_log
    /\ UNCHANGED saved_mmd
    /\ pc = "pp_fix"
    /\ PingPongContinues(attempt)
    /\ \E answer \in CoderAnswers :
          FixStep(FixError(pp_code, answer))
    /\ pp_ids' = Append(pp_ids, CoderId(attempt))
    /\ UNCHANGED short_error
    /\ UNCHANGED <<use_dual_coder, skip_inspection, current_version, current_code, current_feedback,
                   final_image_path, visual_iterations, render_attempts,
                   feedback_history, history_len, result, eval_calls, trace>>
    /\ NoRenderCalled
    /\ TaskFollows

\* when the attempts are used up the repair starts over instead of returning
PingPongExhausted_StartsOver ==
    /\ UNCHANGED session_log
    /\ UNCHANGED saved_mmd
    /\ pc = "pp_fix"
    /\ ~PingPongContinues(attempt)
    /\ pc' = "pp_fix"
    /\ attempt' = 0
    /\ pp_ids' = <<>>
    /\ UNCHANGED <<current_feedback, feedback_history, history_len>>
    /\ UNCHANGED <<short_error, pp_code, pp_error, fixed_code>>
    /\ UNCHANGED <<use_dual_coder, skip_inspection, current_version, current_code,
                   final_image_path, visual_iterations, render_attempts,
                   result, eval_calls, trace>>
    /\ NoRenderCalled
    /\ TaskFollows

\* the for loop ends: return False, None; run records [short_error] and continues
PingPongExhausted ==
    /\ UNCHANGED session_log
    /\ UNCHANGED saved_mmd
    /\ pc = "pp_fix"
    /\ ~PingPongContinues(attempt)
    /\ RecordFailure(FailureFeedback("render", short_error))
    /\ PingPongReset
    /\ UNCHANGED <<use_dual_coder, skip_inspection, current_version, current_code,
                   final_image_path, visual_iterations, render_attempts,
                   result, eval_calls, trace>>
    /\ NoRenderCalled
    /\ TaskFollows

\* executor.render(fixed_code_obj.code, _fix_N) succeeds: return True, fixed_code_obj;
\* run takes it as current_code and saves it
PingPongRenderOk ==
    /\ UNCHANGED session_log
    /\ saved_mmd' = _save_attempt_mmd(fixed_code, FixedName(render_attempts))
    /\ pc = "pp_render"
    /\ \E r \in RenderOutcomes(FixName(attempt)) :
          /\ r.success
          /\ RenderCalled("fix", FixName(attempt), r)
    /\ current_code' = fixed_code
    /\ current_version' = CoderVersion(NewCoderHistory)
    /\ pc' = "rerender"
    /\ trace' = [trace EXCEPT !.any_image = TRUE,
                              !.scenario_a = @ \/ (attempt = 1 /\ observe = "rounds")]
    /\ PingPongUnchanged
    /\ UNCHANGED <<use_dual_coder, skip_inspection, current_feedback,
                   final_image_path, visual_iterations, render_attempts,
                   feedback_history, history_len, result, eval_calls>>
    /\ TaskFollows

\* a failed render of the repaired code does not update current_error
NextBroken_KeepError(fixed, error) == [code |-> fixed, error |-> pp_error]

\* the code and error _ping_pong_fix carries to the next coder after a failed render
NextBroken(fixed, error) == [code |-> fixed, error |-> ExtractErrorMessage(error)]

\* executor.render(fixed_code_obj.code, _fix_N) fails: pass the result to the next coder
PingPongRenderFail ==
    /\ UNCHANGED session_log
    /\ UNCHANGED saved_mmd
    /\ pc = "pp_render"
    /\ \E r \in RenderOutcomes(FixName(attempt)) :
          /\ ~r.success
          /\ pp_code' = NextBroken(fixed_code, r.error).code
          /\ pp_error' = NextBroken(fixed_code, r.error).error
          /\ RenderCalled("fix", FixName(attempt), r)
    /\ fixed_code' = NoCode
    /\ attempt' = attempt + 1
    /\ pc' = "pp_fix"
    /\ UNCHANGED <<short_error, pp_ids>>
    /\ UNCHANGED <<use_dual_coder, skip_inspection, current_version, current_code, current_feedback,
                   final_image_path, visual_iterations, render_attempts,
                   feedback_history, history_len, result, eval_calls, trace>>
    /\ TaskFollows

\* executor.render(current_code.code, attempt_N_fixed) after a repair succeeds
ReRenderOk ==
    /\ UNCHANGED session_log
    /\ UNCHANGED saved_mmd
    /\ pc = "rerender"
    /\ \E r \in RenderOutcomes(FixedName(render_attempts)) :
          /\ r.success
          /\ RenderSucceeded(r.image_path)
          /\ RenderCalled("fixed", FixedName(render_attempts), r)
    /\ trace' = [trace EXCEPT !.main_image = TRUE,
                              !.image_code = IF observe = "image"
                                             THEN current_code ELSE @,
                              !.scenario_a_rendered =
                                  @ \/ (attempt = 1 /\ observe = "rounds")]
    /\ PingPongReset
    /\ UNCHANGED <<use_dual_coder, skip_inspection, current_version, current_code, current_feedback,
                   render_attempts, feedback_history, history_len, result,
                   eval_calls>>
    /\ TaskFollows

\* executor.render(current_code.code, attempt_N_fixed) after a repair fails
ReRenderFail ==
    /\ UNCHANGED session_log
    /\ UNCHANGED saved_mmd
    /\ pc = "rerender"
    /\ \E r \in RenderOutcomes(FixedName(render_attempts)) :
          /\ ~r.success
          /\ RecordFailure(FailureFeedback("render", ExtractErrorMessage(r.error)))
          /\ RenderCalled("fixed", FixedName(render_attempts), r)
    /\ PingPongReset
    /\ UNCHANGED <<use_dual_coder, skip_inspection, current_version, current_code,
                   final_image_path, visual_iterations, render_attempts,
                   result, eval_calls, trace>>
    /\ TaskFollows

\* an approved round does not break out of the loop
AfterEvaluation_IgnoreApproval(fb, history, len) ==
    IF IsRepeatedFeedback(history, len) THEN "finish" ELSE "loop"

\* where run goes after an evaluation round returned fb (history already appended)
AfterEvaluation(fb, history, len) ==
    IF fb.is_approved THEN "finish"
    ELSE IF IsRepeatedFeedback(history, len) THEN "finish"
    ELSE "loop"

\* Step 4: chartaf.evaluate returns a feedback
EvaluateOk ==
    /\ UNCHANGED session_log
    /\ UNCHANGED saved_mmd
    /\ pc = "eval"
    /\ \E ret \in EvalReturns :
             /\ ~ret.inp.raises
             /\ current_feedback' = ret.feedback
             /\ feedback_history' = HistAppend(feedback_history, ret.feedback)
             /\ history_len' = history_len + 1
             /\ pc' = AfterEvaluation(ret.feedback,
                                      HistAppend(feedback_history, ret.feedback),
                                      history_len + 1)
             /\ trace' = [trace EXCEPT !.approved = @ \/ ret.feedback.is_approved,
                                       !.last_eval = IF observe = "rounds"
                                                    THEN ret.feedback ELSE @,
                                       !.critic_failed = IF observe = "rounds"
                                                        THEN CriticFailed(ret.inp) ELSE @]
    /\ eval_calls' = eval_calls + 1
    /\ UNCHANGED <<use_dual_coder, skip_inspection, current_version, current_code,
                   final_image_path, visual_iterations, render_attempts,
                   result>>
    /\ NoRenderCalled
    /\ PingPongUnchanged
    /\ TaskFollows

\* a raising chartaf.evaluate continues with the next pass instead of breaking
EvaluateFail_Continues ==
    /\ UNCHANGED session_log
    /\ UNCHANGED saved_mmd
    /\ pc = "eval"
    /\ \E inp \in EvalInputs : inp.raises
    /\ pc' = "loop"
    /\ eval_calls' = eval_calls + 1
    /\ trace' = [trace EXCEPT !.eval_raised = TRUE]
    /\ UNCHANGED <<use_dual_coder, skip_inspection, current_version, current_code, current_feedback,
                   final_image_path, visual_iterations, render_attempts,
                   feedback_history, history_len,
                   result>>
    /\ NoRenderCalled
    /\ PingPongUnchanged
    /\ TaskFollows

\* Step 4: chartaf.evaluate raises: break
EvaluateFail ==
    /\ UNCHANGED session_log
    /\ UNCHANGED saved_mmd
    /\ pc = "eval"
    /\ \E inp \in EvalInputs : inp.raises
    /\ pc' = "finish"
    /\ eval_calls' = eval_calls + 1
    /\ trace' = [trace EXCEPT !.eval_raised = TRUE]
    /\ UNCHANGED <<use_dual_coder, skip_inspection, current_version, current_code, current_feedback,
                   final_image_path, visual_iterations, render_attempts,
                   feedback_history, history_len,
                   result>>
    /\ NoRenderCalled
    /\ PingPongUnchanged
    /\ TaskFollows

\* a result with output carries the failure text all the same
ResultError_AlwaysSet(has_output) == "Failed to generate chart"

\* error=None if has_output else "Failed to generate chart"
ResultError(has_output) == IF has_output THEN "None" ELSE "Failed to generate chart"

\* after the loop: has_output, ChartResult(...), _save_session_log, return result
Finish ==
    /\ UNCHANGED saved_mmd
    /\ pc = "finish"
    /\ result' = [returned |-> TRUE,
                  success |-> HasOutput(current_code, final_image_path),
                  mermaid_code |-> current_code,
                  image_path |-> final_image_path,
                  iterations |-> visual_iterations,
                  history_len |-> history_len,
                  error |-> ResultError(HasOutput(current_code, final_image_path))]
    /\ session_log' = _save_session_log(result')
    /\ pc' = "done"
    /\ UNCHANGED <<use_dual_coder, skip_inspection, current_version, current_code, current_feedback,
                   final_image_path, visual_iterations, render_attempts,
                   feedback_history, history_len, eval_calls, trace>>
    /\ NoRenderCalled
    /\ PingPongUnchanged
    /\ TaskFollows

Next ==
    \/ DesignOk
    \/ DesignFail
    \/ LoopTest
    \/ SynthGenerate
    \/ SynthRevise
    \/ RenderOk
    \/ RenderFailDual
    \/ RenderFailSingle
    \/ PingPongFix
    \/ PingPongExhausted
    \/ PingPongRenderOk
    \/ PingPongRenderFail
    \/ ReRenderOk
    \/ ReRenderFail
    \/ EvaluateOk
    \/ EvaluateFail
    \/ Finish

Spec == Init /\ [][Next]_vars

\* ------------------------------------------- one ChartAF.evaluate call by itself
loop_vars == <<pc, use_dual_coder, skip_inspection, current_code, current_version, current_feedback,
               final_image_path, visual_iterations, render_attempts,
               feedback_history, history_len, short_error, attempt, pp_code,
               pp_error, fixed_code, render_result, result, observe, render_calls,
               main_rendered, eval_calls, pp_ids, trace, saved_mmd,
               rendered_names, session_log, run_from_task>>

\* ChartAF.evaluate is called with an image, with or without a structure
InitChartAF ==
    /\ pc = "chartaf"
    /\ use_dual_coder = TRUE
    /\ skip_inspection = FALSE
    /\ InitLocals
    /\ observe = "none"
    /\ \E d \in DesignSpecs : chartaf = [AFIdle EXCEPT !.pc = "questions", !.design_spec = d]

\* Step 1: question_generator.generate
AFGenerateQuestions ==
    /\ chartaf.pc = "questions"
    /\ \E reply \in QuestionReplies :
          LET questions == GenerateQuestions(reply, chartaf.design_spec)
          IN chartaf' = [chartaf EXCEPT !.pc = "inspect",
                           !.used_fallback = UsesFallback(reply),
                           !.questions = questions,
                           !.tasks = [i \in 1..Len(questions) |-> "new"]]
    /\ UNCHANGED loop_vars

\* Step 2, one task of evaluate_all up to its await: evaluate_question has
\* handed self.messages + new_messages to the backend
EvaluateQuestionSend ==
    /\ chartaf.pc = "inspect"
    /\ \E i \in 1..Len(chartaf.tasks) :
          /\ chartaf.tasks[i] = "new"
          /\ chartaf' = [chartaf EXCEPT !.tasks[i] = "sent"]
    /\ UNCHANGED loop_vars

\* Step 2, one task of evaluate_all resumes: the backend call returned or
\* raised; in whatever order the tasks resume
EvaluateQuestionReply ==
    /\ chartaf.pc = "inspect"
    /\ \E i \in 1..Len(chartaf.tasks), r \in InspectorReplies :
          /\ chartaf.tasks[i] = "sent"
          /\ chartaf' = [chartaf EXCEPT
                !.tasks[i] = r,
                !.out_of_order = @ \/ (\E j \in 1..(i - 1) :
                                          chartaf.tasks[j] \notin InspectorReplies),
                !.messages = IF r = "ERR" THEN @ ELSE ChatAsync(@, FALSE)]
    /\ UNCHANGED loop_vars

\* Step 2: every task is done, evaluate_all returns the sorted results
AFEvaluateAll ==
    /\ chartaf.pc = "inspect"
    /\ \A i \in 1..Len(chartaf.tasks) : chartaf.tasks[i] \in InspectorReplies
    /\ chartaf' = [chartaf EXCEPT !.pc = "score",
                      !.evaluations = EvaluateAll(chartaf.questions, chartaf.tasks)]
    /\ UNCHANGED loop_vars

\* score and is_approved of the round
AFScore ==
    /\ chartaf.pc = "score"
    /\ chartaf' = [chartaf EXCEPT !.pc = "done",
                      !.score = Score(chartaf.evaluations),
                      !.is_approved = IsApproved(Score(chartaf.evaluations))]
    /\ UNCHANGED loop_vars

\* evaluate_question has received the reply of the backend
InitInspect ==
    /\ pc = "inspector"
    /\ use_dual_coder = TRUE
    /\ skip_inspection = FALSE
    /\ InitLocals
    /\ observe = "none"
    /\ \E r \in Replies : chartaf = [AFIdle EXCEPT !.pc = "reply", !.reply = r]

\* evaluate_question: the answer and the fix suggestion taken from the reply
EvaluateQuestionParse ==
    /\ chartaf.pc = "reply"
    /\ chartaf' = [chartaf EXCEPT !.pc = "parsed",
                      !.answer = ParseReply(JoinWords(chartaf.reply)).answer,
                      !.fix = ParseReply(JoinWords(chartaf.reply)).fix]
    /\ UNCHANGED loop_vars

SpecInspect == InitInspect /\ [][EvaluateQuestionParse]_vars

NextChartAF ==
    \/ AFGenerateQuestions
    \/ EvaluateQuestionSend
    \/ EvaluateQuestionReply
    \/ AFEvaluateAll
    \/ AFScore

SpecChartAF == InitChartAF /\ [][NextChartAF]_vars

SpecRenderCount == InitCounting /\ [][Next]_vars

SpecRounds == InitRounds /\ [][Next]_vars

SpecFiles == InitFiles /\ [][Next]_vars

SpecImage == InitImage /\ [][Next]_vars

\* run and run_from_task followed together on the same outcomes
SpecTask == InitTask /\ [][Next]_vars

\* every call returns or raises: the request keeps taking its next step
SpecLive == Init /\ [][Next]_vars /\ WF_vars(Next)

\* the words of ChartResult.error
ResultErrorText(error) ==
    CASE error = "Failed to generate chart" -> <<"Failed", "to", "generate", "chart">>
      [] error = "Design failed" -> <<"Design", "failed:">>
      [] OTHER -> <<>>

\* text contains message as a run of words
Mentions(text, message) ==
    \E i \in 1..Len(text) :
        /\ i + Len(message) - 1 <= Len(text)
        /\ SubSeq(text, i, i + Len(message) - 1) = message

\* a result returned after the main loop was entered
LoopResult == pc = "done" /\ result.error # "Design failed"

\* |A n B| / max(|A|, |B|) > 0.6 on the token sets of two issue lists
OverlapExceeds(issues_a, issues_b) ==
    LET A == TokenSet(issues_a)
        B == TokenSet(issues_b)
    IN /\ A # {}
       /\ B # {}
       /\ 10 * Cardinality(A \cap B) > 6 * Max(Cardinality(A), Cardinality(B))

\* ------------------------------------------------------------------- claims

\* C1 as stated: the number of executor.render calls of one request, counting
\* main-loop renders, renders inside _ping_pong_fix and post-repair re-renders,
\* never exceeds 2 x MAX_RENDER_RETRIES.
C1_RenderCallsWithinBudget == render_calls <= 2 * MAX_RENDER_RETRIES

\* C1 amended: render_attempts counts the passes of the main loop and never
\* exceeds 2 x MAX_RENDER_RETRIES, and a pass makes its main-loop render call
\* at most once; renders inside _ping_pong_fix and re-renders are not counted.
C1_PassesWithinBudget ==
    /\ render_attempts <= 2 * MAX_RENDER_RETRIES
    /\ pc = "render" => ~main_rendered

\* the eighth pass has made its main-loop render
C1_Witness ==
    /\ render_attempts = 2 * MAX_RENDER_RETRIES
    /\ main_rendered
    /\ pc = "loop"

\* C2: visual_iterations never exceeds MAX_VISUAL_ITERATIONS, the evaluator is
\* called at most MAX_VISUAL_ITERATIONS times and the returned iterations is
\* at most MAX_VISUAL_ITERATIONS.
C2_IterationsWithinBudget ==
    /\ visual_iterations <= MAX_VISUAL_ITERATIONS
    /\ eval_calls <= MAX_VISUAL_ITERATIONS
    /\ result.returned => result.iterations <= MAX_VISUAL_ITERATIONS

\* a request that returned after three evaluated iterations
C2_Witness ==
    /\ pc = "done"
    /\ result.iterations = MAX_VISUAL_ITERATIONS
    /\ eval_calls = MAX_VISUAL_ITERATIONS

\* C3: when an evaluation round returns unapproved and the previous evaluation
\* round was unapproved with an issue-token overlap above 0.6, the loop
\* terminates on this round: it breaks, or at least makes no further pass
\* (no further revise call).
C3_PlateauTerminates ==
    [][ ( /\ pc = "eval"
          /\ history_len' = history_len + 1
          /\ ~current_feedback'.is_approved
          /\ trace.last_eval.src = "eval"
          /\ ~trace.last_eval.is_approved
          /\ OverlapExceeds(trace.last_eval.issues, current_feedback'.issues) )
        => ( \/ pc' = "finish"
             \/ ~LoopContinues(visual_iterations', render_attempts') ) ]_vars

\* C4: after an approved evaluation round no coder, render or evaluation call
\* is made (the loop is over), and a request whose first round is approved
\* returns iterations = 1 and success = true.
C4_ApprovedTerminates ==
    /\ trace.approved => pc \in {"finish", "done"}
    /\ (pc = "done" /\ trace.approved /\ eval_calls = 1)
          => (result.success /\ result.iterations = 1)

\* a request that returned after its first evaluation round approved
C4_Witness ==
    /\ pc = "done"
    /\ trace.approved
    /\ eval_calls = 1
    /\ result.success

\* C5 as stated: when the main loop has exited, success is true exactly when
\* at least one render of the request produced an image.
C5_SuccessIffAnyImage ==
    LoopResult => (result.success <=> trace.any_image)

\* C5 amended: when the main loop has exited, success is true exactly when a
\* main-loop render or a post-repair re-render produced an image, approved or
\* not; an image produced only inside _ping_pong_fix does not count.
C5_SuccessIffLoopImage ==
    LoopResult => (result.success <=> trace.main_image)

\* a request that returned success without any approved round
C5_Witness ==
    /\ LoopResult
    /\ result.success
    /\ trace.main_image
    /\ ~trace.approved

\* the k-th repair attempt of an invocation is made by A for even k, by B for
\* odd k, and an invocation makes at most 2 x MAX_PING_PONG_ROUNDS attempts
PingPongAlternates ==
    /\ Len(pp_ids) <= 2 * MAX_PING_PONG_ROUNDS
    /\ pc = "pp_fix" => Len(pp_ids) = attempt
    /\ pc \in {"pp_render", "rerender"} => Len(pp_ids) = attempt + 1
    /\ \A i \in 1..Len(pp_ids) : pp_ids[i] = IF i % 2 = 1 THEN "A" ELSE "B"
    /\ (pc = "rerender" /\ attempt = 1) => pp_ids = <<"A", "B">>

\* C6 as stated: repair attempts alternate A, B, A, B, ... up to
\* 2 x MAX_PING_PONG_ROUNDS, and when A's attempt fails and B's first repair
\* renders successfully the request returns success = true.
C6_AlternationAndSuccess ==
    /\ PingPongAlternates
    /\ (pc = "done" /\ trace.scenario_a) => result.success

\* C6 amended: repair attempts alternate A, B, A, B, ... up to
\* 2 x MAX_PING_PONG_ROUNDS; when A's attempt fails and B's first repair
\* renders successfully the identities are [A, B] and the protocol returns
\* success, and the request returns success = true when the post-repair
\* re-render succeeds as well.
C6_AlternationAndRerender ==
    /\ PingPongAlternates
    /\ (pc = "done" /\ trace.scenario_a_rendered) => result.success

\* a request that returned after B's first repair rendered and re-rendered
C6_Witness ==
    /\ pc = "done"
    /\ trace.scenario_a
    /\ trace.scenario_a_rendered
    /\ result.success

\* C7: a fix_error call that raises leaves the broken code and the error of
\* _ping_pong_fix unchanged and moves to the next attempt, so the next coder
\* is called with the same broken code and error.
C7_FailedRepairKeepsProblem ==
    [][ (pc = "pp_fix" /\ pc' = "pp_fix")
        => ( /\ pp_code' = pp_code
             /\ pp_error' = pp_error
             /\ attempt' = attempt + 1 ) ]_vars

\* the second attempt is about to start after A's fix_error raised: the
\* problem is still the one _ping_pong_fix was called with
C7_Witness ==
    /\ pc = "pp_fix"
    /\ attempt = 1
    /\ Len(pp_ids) = 1
    /\ pp_code = current_code
    /\ pp_error = short_error

\* C8: the step after a successful fix_error call is the render of the
\* repaired code; if it succeeds the protocol returns that artifact and makes
\* no further repair call, if it fails the broken code becomes the repaired
\* code and the error becomes the new render error for the next attempt.
C8_RepairedCodeIsRendered ==
    [][ pc = "pp_render"
        => ( /\ render_result'.kind = "fix"
             /\ render_result'.success
                  => ( /\ pc' = "rerender"
                       /\ current_code' = fixed_code
                       /\ pp_ids' = pp_ids )
             /\ ~render_result'.success
                  => ( /\ pc' = "pp_fix"
                       /\ attempt' = attempt + 1
                       /\ pp_code' = fixed_code
                       /\ pp_error' = ExtractErrorMessage(render_result'.error) ) ) ]_vars

\* the protocol returned a repaired artifact after an earlier repaired code
\* had failed to render with another error
C8_Witness ==
    /\ pc = "rerender"
    /\ attempt >= 1
    /\ current_code = fixed_code
    /\ pp_error # short_error

\* C9: when all 2 x MAX_PING_PONG_ROUNDS attempts are used up the protocol
\* returns failure with no artifact and run goes on as after any failed
\* render: nothing is returned or raised, a failure feedback with the short
\* error is recorded, visual_iterations is unchanged, and the loop makes its
\* next pass while both budgets remain.
C9_ExhaustedRepairIsOrdinaryFailure ==
    [][ /\ (pc = "pp_fix" /\ attempt = 2 * MAX_PING_PONG_ROUNDS)
          => ( /\ pc' = "loop"
               /\ result' = result
               /\ current_code' = current_code
               /\ final_image_path' = final_image_path
               /\ visual_iterations' = visual_iterations
               /\ history_len' = history_len + 1
               /\ ~current_feedback'.is_approved
               /\ current_feedback'.issues = <<short_error>>
               /\ feedback_history'[Len(feedback_history')] = current_feedback' )
        /\ (pc = "loop" /\ visual_iterations < MAX_VISUAL_ITERATIONS
                      /\ render_attempts < 2 * MAX_RENDER_RETRIES)
          => pc' = "synth" ]_vars

\* run is back at the loop test after an exhausted repair, budgets remaining
C9_Witness ==
    /\ pc = "loop"
    /\ use_dual_coder
    /\ render_result.kind \in {"main", "fix"}
    /\ ~render_result.success
    /\ current_feedback.src = "render"
    /\ visual_iterations < MAX_VISUAL_ITERATIONS
    /\ render_attempts < 2 * MAX_RENDER_RETRIES

\* C10: a fix_error call that returns never returns the broken code it was
\* given, so the code rendered inside _ping_pong_fix always differs from the
\* protocol's current broken code.
C10_RepairChangesCode ==
    pc = "pp_render" => (fixed_code # NoCode /\ fixed_code # pp_code)

\* a repaired code is about to be rendered after an earlier attempt failed
C10_Witness ==
    /\ pc = "pp_render"
    /\ attempt >= 1
    /\ fixed_code # pp_code

\* C11 as stated: whenever _ping_pong_fix has returned success, the render of
\* the returned code under the name attempt_N_fixed succeeds as well, so a
\* successful repair is always followed by a visual iteration.
C11_RerenderSucceeds ==
    [][ pc = "rerender"
        => ( /\ render_result'.success
             /\ visual_iterations' = visual_iterations + 1 ) ]_vars

\* C11 amended: after _ping_pong_fix has returned success the returned code is
\* rendered again under the name attempt_N_fixed; if that render succeeds a
\* visual iteration follows with its image, and if it fails the extracted
\* error is recorded as a failure feedback, visual_iterations is unchanged
\* and the loop goes on to its next pass.
C11_RerenderDecides ==
    [][ pc = "rerender"
        => ( /\ render_result'.kind = "fixed"
             /\ current_code' = current_code
             /\ render_result'.success
                  => ( /\ visual_iterations' = visual_iterations + 1
                       /\ final_image_path' = FixedName(render_attempts)
                       /\ pc' \in {"eval", "finish"}
                       /\ history_len' = history_len )
             /\ ~render_result'.success
                  => ( /\ visual_iterations' = visual_iterations
                       /\ final_image_path' = final_image_path
                       /\ pc' = "loop"
                       /\ history_len' = history_len + 1
                       /\ current_feedback'.issues
                              = <<ExtractErrorMessage(render_result'.error)>> ) ) ]_vars

\* the re-render of a repaired code failed although it rendered inside
\* _ping_pong_fix
C11_Witness ==
    /\ pc = "loop"
    /\ render_result.kind = "fixed"
    /\ ~render_result.success
    /\ trace.any_image
    /\ current_feedback.src = "render"

\* the number of YES answers among the evaluations of the round
YesAnswers == Cardinality({i \in 1..Len(chartaf.evaluations) : chartaf.evaluations[i].answer})

\* C12: the score of a round is (number of yes answers) / (number of
\* questions), lies in [0, 1], is 0 when there are no answers, and the round
\* is approved exactly when the score is at least 0.8.
C12_ScoreAndApproval ==
    chartaf.pc = "done"
        => LET n == Len(chartaf.questions)
               score == chartaf.score
           IN /\ Len(chartaf.evaluations) = n
              /\ score.den > 0
              /\ 0 <= score.num /\ score.num <= score.den
              /\ n > 0 => score.num * n = YesAnswers * score.den
              /\ n = 0 => score.num = 0
              /\ chartaf.is_approved <=> (n > 0 /\ 5 * YesAnswers >= 4 * n)

\* a round of five questions with four YES answers: score exactly 0.8, approved
C12_Witness ==
    /\ chartaf.pc = "done"
    /\ Len(chartaf.questions) = 5
    /\ YesAnswers = 4
    /\ chartaf.is_approved

\* a request has returned after the loop, renders were attempted and none succeeded
AllRendersFailed ==
    /\ LoopResult
    /\ render_result.kind # "none"
    /\ ~trace.any_image

\* C13 as stated: if every render call fails the request returns success =
\* false with an error string that describes the last render error.
C13_LastRenderErrorReported ==
    AllRendersFailed
        => ( /\ ~result.success
             /\ Mentions(ResultErrorText(result.error),
                         ExtractErrorMessage(render_result.error)) )

\* C13 amended: if every render call fails the request returns, after all
\* 2 x MAX_RENDER_RETRIES passes, success = false with no image, iterations = 0
\* and the fixed error "Failed to generate chart"; every pass has recorded one
\* failure feedback, which is where the render errors are kept.
C13_AllRendersFailGeneric ==
    AllRendersFailed
        => ( /\ ~result.success
             /\ result.error = "Failed to generate chart"
             /\ result.image_path = NoImage
             /\ result.iterations = 0
             /\ render_attempts = 2 * MAX_RENDER_RETRIES
             /\ result.history_len = 2 * MAX_RENDER_RETRIES
             /\ ~current_feedback.is_approved
             /\ current_feedback.src \in {"render", "code"} )

\* every render failed and the last pass exhausted the repair protocol
C13_Witness ==
    /\ AllRendersFailed
    /\ use_dual_coder
    /\ render_result.kind = "fix"
    /\ current_feedback.src = "render"
    /\ ~result.success

\* C14: when the critic backend fails during an evaluation round (the call
\* raises, the question generation fails or an inspection call fails), the
\* loop breaks in that round, with no further revise, render or evaluation
\* call, and the request is not approved.
C14_CriticFailureBreaks ==
    [][ ( /\ pc = "eval"
          /\ trace'.critic_failed \/ trace'.eval_raised )
        => ( /\ pc' = "finish"
             /\ ~trace'.approved ) ]_vars

\* this step appends one failure feedback, which becomes current_feedback
FailureLogged ==
    /\ history_len' = history_len + 1
    /\ feedback_history'[Len(feedback_history')] = current_feedback'
    /\ ~current_feedback'.is_approved
    /\ current_feedback'.src \in {"code", "render"}

\* this step appends nothing to feedback_history
NothingLogged ==
    /\ history_len' = history_len
    /\ feedback_history' = feedback_history

C16_DesignFailureAborts ==
    (result.returned /\ result.error = "Design failed")
        => ( /\ pc = "done"
             /\ ~result.success
             /\ result.mermaid_code = NoCode
             /\ result.image_path = NoImage
             /\ render_attempts = 0
             /\ current_code = NoCode
             /\ history_len = 0
             /\ pp_ids = <<>>
             /\ render_result = NoRender
             /\ eval_calls = 0 )

\* a request that ended in design failure
C16_Witness ==
    /\ pc = "done"
    /\ result.returned
    /\ result.error = "Design failed"
    /\ ~result.success

C18_TerminalReasonRecorded ==
    pc = "done"
        => ( /\ session_log.written
             /\ "terminal_reason" \in DOMAIN session_log
             /\ session_log.terminal_reason
                    \in {"approved", "plateaued", "budget_exhausted", "design_failed"}
             /\ session_log.terminal_reason = "approved" <=> trace.approved
             /\ session_log.terminal_reason = "design_failed"
                    <=> result.error = "Design failed" )

\* C18 amended: exactly the requests that terminate after entering the loop
\* leave a session manifest; it records success, iterations, the code, the
\* feedback history and the error of the result, and no terminal reason.
C18_ManifestWithoutReason ==
    /\ session_log.written <=> LoopResult
    /\ session_log.written
          => ( /\ session_log.success = result.success
               /\ session_log.iterations = result.iterations
               /\ session_log.mermaid_code = result.mermaid_code
               /\ session_log.history_len = history_len
               /\ session_log.error = result.error
               /\ "terminal_reason" \notin DOMAIN session_log )

\* an approved request has left its manifest
C18_Witness ==
    /\ pc = "done"
    /\ trace.approved
    /\ session_log.written
    /\ session_log.success

\* the output name of the render call made from the current position
RenderName ==
    CASE pc = "render" -> AttemptName(render_attempts)
      [] pc = "pp_render" -> FixName(attempt)
      [] pc = "rerender" -> FixedName(render_attempts)
      [] OTHER -> <<"none", 0>>

\* C19: no render call of a session uses an output name that an earlier render
\* call of the session has used.
C19_OutputNamesUnique ==
    [][ (pc \in {"render", "pp_render", "rerender"})
            => (RenderName \notin rendered_names) ]_vars

\* C20 as stated: entering a pass adds exactly one to render_attempts and
\* nothing else changes it; visual_iterations grows by exactly one with a
\* successful render of the main loop and not otherwise; every failed
\* main-loop render invokes the repair protocol.
C20_CountersAndRepair ==
    [][ /\ render_attempts' = IF pc = "loop" /\ pc' = "synth"
                              THEN render_attempts + 1 ELSE render_attempts
        /\ visual_iterations' = IF pc \in {"render", "rerender"} /\ render_result'.success
                                THEN visual_iterations + 1 ELSE visual_iterations
        /\ (pc = "render" /\ ~render_result'.success) => pc' = "pp_fix" ]_vars

\* C20 amended: the same counters; a failed main-loop render invokes the
\* repair protocol only when use_dual_coder is set, otherwise it is recorded
\* as a failure feedback and the loop goes on.
C20_CountersAndOptionalRepair ==
    [][ /\ render_attempts' = IF pc = "loop" /\ pc' = "synth"
                              THEN render_attempts + 1 ELSE render_attempts
        /\ visual_iterations' = IF pc \in {"render", "rerender"} /\ render_result'.success
                                THEN visual_iterations + 1 ELSE visual_iterations
        /\ (pc = "render" /\ ~render_result'.success)
              => IF use_dual_coder
                 THEN pc' = "pp_fix" /\ history_len' = history_len
                 ELSE pc' = "loop" /\ history_len' = history_len + 1 ]_vars

\* without the dual coder a main-loop render failed after an earlier pass had
\* rendered: recorded, visual_iterations kept
C20_Witness ==
    /\ pc = "loop"
    /\ ~use_dual_coder
    /\ render_result.kind = "main"
    /\ ~render_result.success
    /\ visual_iterations >= 1
    /\ render_attempts >= 2
    /\ current_feedback.src = "render"

\* C21: whenever the plateau check runs on two history entries, both are
\* feedback of evaluation rounds (never feedback synthesized for a synthesis
\* or render failure), and the loop leaves through the plateau only when at
\* least two evaluation rounds have completed.
C21_PlateauOperandsGenuine ==
    [][ ( /\ pc = "eval"
          /\ history_len' = history_len + 1
          /\ ~current_feedback'.is_approved )
        => ( /\ history_len' >= 2
                   => ( /\ feedback_history'[1].src = "eval"
                        /\ feedback_history'[2].src = "eval" )
             /\ pc' = "finish" => eval_calls' >= 2 ) ]_vars

\* one ChartAF.evaluate call has its questions
AFHasQuestions == chartaf.pc \in {"inspect", "score", "done"}

\* C22 as stated: every evaluation round uses between 4 and 10 questions.
C22_QuestionCountInRange ==
    AFHasQuestions
        => (4 <= Len(chartaf.questions) /\ Len(chartaf.questions) <= 10)

\* C22 amended: a round uses at least one question, numbered 1..n in order;
\* the fallback checklist has 4 questions without a design spec and, with one,
\* 5 plus one for decision nodes plus one for fan-out; the questions of a
\* reply of the model are used in whatever number the reply holds them.
C22_QuestionCounts ==
    AFHasQuestions
        => LET n == Len(chartaf.questions)
               d == chartaf.design_spec
           IN /\ n >= 1
              /\ \A i \in 1..n : chartaf.questions[i].id = i
              /\ chartaf.used_fallback
                    => n = 4 + (IF d.given THEN 1 ELSE 0)
                             + (IF d.given /\ d.decisions THEN 1 ELSE 0)
                             + (IF d.given /\ d.fanout THEN 1 ELSE 0)

\* a round that ran on the single question of the model's reply
C22_Witness ==
    /\ chartaf.pc = "done"
    /\ ~chartaf.used_fallback
    /\ Len(chartaf.questions) = 1
    /\ Len(chartaf.evaluations) = 1

\* C23: whatever the order in which the inspection tasks resume and whether
\* their backend calls return or raise, evaluate_all returns exactly one
\* result per question, in ascending order of question id, each holding the
\* answer of the task of its question, and the message history of the
\* inspector is what it was before the round.
C23_OneAnswerPerQuestion ==
    /\ chartaf.messages = <<>>
    /\ chartaf.pc \in {"score", "done"}
          => LET n == Len(chartaf.questions)
                 ev == chartaf.evaluations
             IN /\ Len(ev) = n
                /\ \A i \in 1..n :
                      /\ ev[i].id = chartaf.questions[i].id
                      /\ ev[i].answer = (chartaf.tasks[i] = "YES")
                /\ \A i, j \in 1..n : i < j => ev[i].id < ev[j].id

\* a round returned whose tasks resumed out of question order, one of them
\* after a failed backend call
C23_Witness ==
    /\ chartaf.pc = "done"
    /\ chartaf.out_of_order
    /\ \E i \in 1..Len(chartaf.tasks) : chartaf.tasks[i] = "ERR"
    /\ \E i \in 1..Len(chartaf.tasks) : chartaf.tasks[i] = "YES"
    /\ Len(chartaf.evaluations) = Len(chartaf.questions)

\* the reply's words read as yes/no tokens: punctuation dropped, case folded
TokenOf(word) ==
    LET w == Upper(RStrip(word, {":", ",", "."}))
    IN IF w = <<"Y", "E", "S">> THEN "yes"
       ELSE IF w = <<"N", "O">> THEN "no"
       ELSE "other"

\* the position of the first yes/no token among the words, 0 when there is none
FirstToken(words) ==
    LET hits == {i \in 1..Len(words) : TokenOf(words[i]) # "other"}
    IN IF hits = {} THEN 0 ELSE CHOOSE i \in hits : \A j \in hits : i <= j

\* C24: the recorded answer is YES exactly when the first yes/no token of the
\* reply is "yes"; when the first token is "no" the fix suggestion is the text
\* that follows that token.
C24_FirstTokenDecides ==
    chartaf.pc = "parsed"
        => LET words == chartaf.reply
               k == FirstToken(words)
           IN /\ chartaf.answer <=> (k # 0 /\ TokenOf(words[k]) = "yes")
              /\ (k # 0 /\ TokenOf(words[k]) = "no" /\ k < Len(words))
                    => chartaf.fix = JoinWords(SubSeq(words, k + 1, Len(words)))

\* C25: an artifact produced by generate, revise or a repair carries a version
\* number strictly greater than that of the artifact it replaces.
C25_VersionsIncrease ==
    [][ (current_code # NoCode /\ pc \in {"synth", "pp_render"} /\ pc' \in {"render", "rerender"})
            => current_version' > current_version ]_vars

\* C26: when a request returns success = true, the returned code is the code
\* whose render produced the returned image.
C26_CodeMatchesImage ==
    (pc = "done" /\ result.success)
        => ( /\ result.image_path = final_image_path
             /\ result.mermaid_code = trace.image_code )

C28_ResultFieldsAgree ==
    LoopResult
        => ( /\ result.success <=> result.iterations >= 1
             /\ result.success <=> result.image_path # NoImage
             /\ result.success <=> result.error = "None"
             /\ ~result.success
                   => ( /\ result.iterations = 0
                        /\ result.image_path = NoImage
                        /\ ResultErrorText(result.error) # <<>> ) )

\* a request returned without success although code had been generated and
\* rendered (every render failed)
C28_Witness ==
    /\ LoopResult
    /\ ~result.success
    /\ result.mermaid_code # NoCode
    /\ render_result.kind # "none"
    /\ result.iterations = 0

C29_SameCallsSameResult ==
    /\ run_from_task.pc = pc
    /\ run_from_task.current_code = current_code
    /\ run_from_task.current_feedback = current_feedback
    /\ run_from_task.visual_iterations = visual_iterations
    /\ run_from_task.render_attempts = render_attempts
    /\ run_from_task.attempt = attempt
    /\ run_from_task.pp_code = pp_code
    /\ run_from_task.pp_error = pp_error
    /\ run_from_task.fixed_code = fixed_code
    /\ pc = "done" =>
          /\ run_from_task.result.returned
          /\ run_from_task.result.success = result.success
          /\ run_from_task.result.iterations = result.iterations
          /\ run_from_task.result.mermaid_code = result.mermaid_code
          /\ run_from_task.result.history_len = result.history_len
          /\ run_from_task.feedback_history = feedback_history

\* both have returned a chart after several passes, the last one through a repair
C29_Witness ==
    /\ observe = "task"
    /\ pc = "done"
    /\ run_from_task.result.returned
    /\ run_from_task.result.success
    /\ result.iterations >= 2
    /\ result.history_len >= 3
    /\ render_result.kind = "fixed"

====
